---- MODULE Spec2Model ----
(***************************************************************************)
(* A model of sftpx: the AsyncSFTP session of sftpx/client.py and the      *)
(* helpers of sftpx/utils.py.                                              *)
(*                                                                         *)
(* The SSH/SFTP engine (paramiko) and the remote server are the            *)
(* environment.  The engine is modelled by what its primitives do to a     *)
(* remote file tree and by the exceptions they raise; every failure the    *)
(* engine can produce on its own (a dead socket, a permission refusal) is  *)
(* an input chosen by the environment.                                     *)
(***************************************************************************)
EXTENDS Integers, Sequences, FiniteSets, TLC

VARIABLES
    conns,        \* one record per paramiko.SSHClient that connect() created
    _client,      \* self._client: index into conns, 0 is None
    _transport,   \* self._transport: index into conns, 0 is None
    _sftp,        \* self._sftp: index of the client whose SFTP channel it is, 0 is None
    remote,       \* the server's file tree: [dirs, files]
    localfs,      \* the caller's file tree: [dirs, files]
    scope,        \* position of an `async with AsyncSFTP(...)` block
    calls,        \* the engine calls the last operation issued, in order
    last,         \* the last operation: its name, arguments, injected fault, result
    max_retries,  \* self.max_retries, as given to the constructor
    retry_delay,  \* self.retry_delay, as given to the constructor
    tasks         \* the invocations of utils.ensure_async on the event loop

session ==
    <<conns, _client, _transport, _sftp, remote, localfs, scope, calls, last,
      max_retries, retry_delay>>
vars == <<session, tasks>>

-----------------------------------------------------------------------------
(* Bounds *)

\* connect() may be called this many times in one run (each creates an SSHClient).
MaxClients == 2
\* this many invocations of ensure_async are started on the event loop
MaxCalls == 3

-----------------------------------------------------------------------------
(* Paths.  A host path (pathlib.Path on a POSIX host) is a sequence of     *)
(* segments; a segment is a sequence of names, of length > 1 when the      *)
(* segment itself holds backslashes ("r\f1" is the one segment <<r, f1>>). *)
(* The canonical remote path and every local path are sequences of names.  *)

Seg(n) == <<n>>

RECURSIVE Flatten(_)
Flatten(p) == IF p = <<>> THEN <<>> ELSE Head(p) \o Flatten(Tail(p))

\* utils.normalize_path: str(path).replace('\\', '/')
normalize_path(path) == Flatten(path)

RECURSIVE AsSegs(_)
AsSegs(names) == IF names = <<>> THEN <<>> ELSE <<Seg(Head(names))>> \o AsSegs(Tail(names))

Parent(p) == SubSeq(p, 1, Len(p) - 1)

\* the order in which a directory's entries are enumerated
NameOrder == <<"d", "f1", "f2", "f3", "g1", "r", "s">>

-----------------------------------------------------------------------------
(* Results and exceptions *)

NoExc == [exc |-> "none", msg |-> <<>>, text |-> ""]
Exc(type, text) == [exc |-> type, msg |-> <<>>, text |-> text]

\* Python's class hierarchy of the exceptions that occur
Base(type) ==
    CASE type = "AuthenticationException" -> "SSHException"
      [] type = "BadHostKeyException" -> "SSHException"
      [] type = "SSHException" -> "Exception"
      [] type = "NoValidConnectionsError" -> "OSError"
      [] type = "timeout" -> "OSError"
      [] type = "FileNotFoundError" -> "OSError"
      [] type = "PermissionError" -> "OSError"
      [] type = "IsADirectoryError" -> "OSError"
      [] type = "NotADirectoryError" -> "OSError"
      [] type = "FileExistsError" -> "OSError"
      [] type = "OSError" -> "Exception"
      [] type = "EOFError" -> "Exception"
      [] type = "AttributeError" -> "Exception"
      [] type = "ValueError" -> "Exception"
      [] type = "ConnectionError" -> "AsyncSFTPError"
      [] type = "AuthenticationError" -> "AsyncSFTPError"
      [] type = "FileTransferError" -> "AsyncSFTPError"
      [] type = "AsyncSFTPError" -> "Exception"
      [] OTHER -> "BaseException"

RECURSIVE IsInstance(_, _)
IsInstance(type, cls) ==
    IF type = cls THEN TRUE
    ELSE IF type \in {"Exception", "BaseException", "none"} THEN FALSE
    ELSE IsInstance(Base(type), cls)

\* what an operation hands back: a value, or a raised exception
Ok(val, list) == [kind |-> "ok", val |-> val, list |-> list, msg |-> <<>>, cause |-> ""]
\* `raise e` of an exception e that is not translated
Raised(e) == [kind |-> e.exc, val |-> "", list |-> <<>>, msg |-> e.msg, cause |-> e.text]
\* `raise Kind(f"{prefix}{str(e)}")`
Wrap(kind, prefix, e) ==
    [kind |-> kind, val |-> "", list |-> <<>>, msg |-> <<prefix>> \o e.msg, cause |-> e.text]
\* the exception object of a raised result, as an `except ... as e` sees it
AsExc(res) == [exc |-> res.kind, msg |-> res.msg, text |-> res.cause]

\* evaluating self._sftp.<attr> while self._sftp is None
NoneAttr == Exc("AttributeError", "'NoneType' object has no attribute")

-----------------------------------------------------------------------------
(* The world an operation runs in: W = [dirs, files, ldirs, lfiles, calls] *)
(* (remote tree, local tree, engine calls so far) and the session's handle *)
(* S = [set, open]: self._sftp is not None; its channel is usable.         *)

\* what the environment can make an engine call raise: the connection is
\* lost (EOFError), or the server refuses the path (IOError with EACCES,
\* which Python makes a PermissionError)
NoFault == [at |-> 0, exc |-> "none"]
LostOnly == {"EOFError"}
LostOrDenied == {"EOFError", "PermissionError"}
FaultText(exc) == IF exc = "PermissionError" THEN "Permission denied" ELSE "Socket is closed"

CallNo(W) == Len(W.calls) + 1

\* the failure of an engine call that the remote tree does not decide
Blocked(W, S, F) ==
    IF ~S.open THEN Exc("OSError", "Socket is closed")
    ELSE IF F.at = CallNo(W) THEN Exc(F.exc, FaultText(F.exc))
    ELSE NoExc

\* one engine call: the primitive, where it ran (on a worker through
\* ensure_async, or inline on the event loop), and what it raised
Call(prim, via, e) == [prim |-> prim, via |-> via, exc |-> e.exc, text |-> e.text]

Logged(W, prim, via, e) == [W EXCEPT !.calls = Append(@, Call(prim, via, e))]

IsRemoteDir(W, p) == p \in W.dirs
IsRemoteFile(W, p) == p \in DOMAIN W.files
RemoteExists(W, p) == IsRemoteDir(W, p) \/ IsRemoteFile(W, p)
IsLocalDir(W, p) == p \in W.ldirs
IsLocalFile(W, p) == p \in DOMAIN W.lfiles
LocalExists(W, p) == IsLocalDir(W, p) \/ IsLocalFile(W, p)

NoSuchFile == Exc("FileNotFoundError", "No such file")
Failure == Exc("OSError", "Failure")

SetFile(files, p, c) == [q \in DOMAIN files \cup {p} |-> IF q = p THEN c ELSE files[q]]
DelFile(files, p) == [q \in DOMAIN files \ {p} |-> files[q]]

\* paramiko SFTPClient.mkdir on the server: one level, fails on an existing path
SftpMkdir(W, S, F, p) ==
    LET b == Blocked(W, S, F)
        e == IF b.exc # "none" THEN b
             ELSE IF RemoteExists(W, p) THEN Failure
             ELSE IF ~IsRemoteDir(W, Parent(p)) THEN NoSuchFile
             ELSE NoExc
    IN [e |-> e,
        W |-> IF e.exc = "none" THEN [W EXCEPT !.dirs = @ \cup {p}] ELSE W]

\* paramiko SFTPClient.put: reads the local file, writes the remote one
SftpPut(W, S, F, lp, p) ==
    LET b == Blocked(W, S, F)
        e == IF ~LocalExists(W, lp) THEN NoSuchFile
             ELSE IF IsLocalDir(W, lp) THEN Exc("IsADirectoryError", "Is a directory")
             ELSE IF b.exc # "none" THEN b
             ELSE IF IsRemoteDir(W, p) THEN Failure
             ELSE IF ~IsRemoteDir(W, Parent(p)) THEN NoSuchFile
             ELSE NoExc
    IN [e |-> e,
        W |-> IF e.exc = "none"
              THEN [W EXCEPT !.files = SetFile(@, p, W.lfiles[lp])] ELSE W]

\* paramiko SFTPClient.get: opens the local file for writing, then reads the remote one
SftpGet(W, S, F, p, lp) ==
    LET b == Blocked(W, S, F)
        le == IF IsLocalDir(W, lp) THEN Exc("IsADirectoryError", "Is a directory")
              ELSE IF ~IsLocalDir(W, Parent(lp)) THEN NoSuchFile
              ELSE NoExc
        e == IF le.exc # "none" THEN le
             ELSE IF b.exc # "none" THEN b
             ELSE IF IsRemoteDir(W, p) THEN Failure
             ELSE IF ~IsRemoteFile(W, p) THEN NoSuchFile
             ELSE NoExc
    IN [e |-> e,
        W |-> IF le.exc # "none" THEN W
              ELSE [W EXCEPT !.lfiles =
                       SetFile(@, lp, IF e.exc = "none" THEN W.files[p] ELSE "empty")]]

Children(W, p) ==
    SelectSeq(NameOrder, LAMBDA n : RemoteExists(W, Append(p, n)))

\* paramiko SFTPClient.listdir
SftpListdir(W, S, F, p) ==
    LET b == Blocked(W, S, F)
        e == IF b.exc # "none" THEN b
             ELSE IF IsRemoteFile(W, p) THEN Failure
             ELSE IF ~IsRemoteDir(W, p) THEN NoSuchFile
             ELSE NoExc
    IN [e |-> e, W |-> W, list |-> IF e.exc = "none" THEN Children(W, p) ELSE <<>>]

\* paramiko SFTPClient.rmdir
SftpRmdir(W, S, F, p) ==
    LET b == Blocked(W, S, F)
        e == IF b.exc # "none" THEN b
             ELSE IF ~RemoteExists(W, p) THEN NoSuchFile
             ELSE IF ~IsRemoteDir(W, p) \/ p = <<>> \/ Children(W, p) # <<>> THEN Failure
             ELSE NoExc
    IN [e |-> e,
        W |-> IF e.exc = "none" THEN [W EXCEPT !.dirs = @ \ {p}] ELSE W]

\* paramiko SFTPClient.remove
SftpRemove(W, S, F, p) ==
    LET b == Blocked(W, S, F)
        e == IF b.exc # "none" THEN b
             ELSE IF ~RemoteExists(W, p) THEN NoSuchFile
             ELSE IF IsRemoteDir(W, p) THEN Failure
             ELSE NoExc
    IN [e |-> e,
        W |-> IF e.exc = "none" THEN [W EXCEPT !.files = DelFile(@, p)] ELSE W]

\* paramiko SFTPClient.stat
SftpStat(W, S, F, p) ==
    LET b == Blocked(W, S, F)
        e == IF b.exc # "none" THEN b
             ELSE IF ~RemoteExists(W, p) THEN NoSuchFile
             ELSE NoExc
    IN [e |-> e, W |-> W]

-----------------------------------------------------------------------------
(* The methods paramiko's SFTPClient provides.  client.py also asks it for *)
(* `isdir` (line 226), which is not one of them.                           *)

SFTPClientMethods ==
    {"from_transport", "close", "listdir", "mkdir", "rmdir", "remove", "stat",
     "lstat", "put", "get", "open", "rename", "chmod", "chdir", "getcwd"}

\* self._sftp.isdir, handed to ensure_async: the attribute lookup comes first
SftpIsdir(W, S, F, p) ==
    IF "isdir" \notin SFTPClientMethods
    THEN [e |-> Exc("AttributeError", "'SFTPClient' object has no attribute 'isdir'"),
          W |-> W, called |-> FALSE, val |-> FALSE]
    ELSE LET b == Blocked(W, S, F)
             e == IF b.exc # "none" THEN b ELSE NoExc
         IN [e |-> e, W |-> W, called |-> TRUE, val |-> IsRemoteDir(W, p)]

-----------------------------------------------------------------------------
(* AsyncSFTP's transfer operations.  Each takes the world W, the handle S, *)
(* its arguments and the injected fault F, and gives [res, W].             *)

\* an engine call that is made again, once, when it raised and the session
\* was constructed with retries
TryCallRetrying(W, S, r, prim, kind, prefix, okres) ==
    IF ~S.set THEN [res |-> Wrap(kind, prefix, NoneAttr), W |-> W]
    ELSE [res |-> IF r.e.exc = "none" THEN okres ELSE Wrap(kind, prefix, r.e),
          W |-> IF r.e.exc # "none" /\ max_retries > 0
                THEN Logged(Logged(r.W, prim, "worker", r.e), prim, "worker", r.e)
                ELSE Logged(r.W, prim, "worker", r.e)]

\* an engine call with no except clause around it: what it raises escapes
TryCallRaw(W, S, r, prim, kind, prefix, okres) ==
    IF ~S.set THEN [res |-> Raised(NoneAttr), W |-> W]
    ELSE [res |-> IF r.e.exc = "none" THEN okres ELSE Raised(r.e),
          W |-> Logged(r.W, prim, "worker", r.e)]

\* try: await ensure_async(self._sftp.<prim>, ...)
\* except Exception as e: raise Kind(f"{prefix}{str(e)}")
TryCall(W, S, r, prim, kind, prefix, okres) ==
    IF ~S.set THEN [res |-> Wrap(kind, prefix, NoneAttr), W |-> W]
    ELSE [res |-> IF r.e.exc = "none" THEN okres
                  ELSE IF IsInstance(r.e.exc, "Exception") THEN Wrap(kind, prefix, r.e)
                  ELSE Raised(r.e),
          W |-> Logged(r.W, prim, "worker", r.e)]

\* put() without its check of the local path: the engine is asked first
put_unchecked(W, S, local_path, remote_path, F) ==
    TryCall(W, S, SftpPut(W, S, F, local_path, normalize_path(remote_path)),
            "sftp.put", "FileTransferError", "Failed to upload file: ", Ok("None", <<>>))

put(W, S, local_path, remote_path, F) ==
    IF ~LocalExists(W, local_path)
    THEN [res |-> Raised(Exc("FileNotFoundError", "Local file not found")), W |-> W]
    ELSE TryCall(W, S, SftpPut(W, S, F, local_path, normalize_path(remote_path)),
                 "sftp.put", "FileTransferError", "Failed to upload file: ", Ok("None", <<>>))

get(W, S, remote_path, local_path, F) ==
    TryCall(W, S, SftpGet(W, S, F, normalize_path(remote_path), local_path),
            "sftp.get", "FileTransferError", "Failed to download file: ", Ok("None", <<>>))

listdir(W, S, path, F) ==
    LET r == SftpListdir(W, S, F, normalize_path(path))
    IN TryCall(W, S, r, "sftp.listdir", "AsyncSFTPError", "Failed to list directory: ",
               Ok("list", r.list))

mkdir(W, S, path, F) ==
    TryCall(W, S, SftpMkdir(W, S, F, normalize_path(path)),
            "sftp.mkdir", "AsyncSFTPError", "Failed to create directory: ", Ok("None", <<>>))

rmdir(W, S, path, F) ==
    TryCall(W, S, SftpRmdir(W, S, F, normalize_path(path)),
            "sftp.rmdir", "AsyncSFTPError", "Failed to remove directory: ", Ok("None", <<>>))

remove(W, S, path, F) ==
    TryCall(W, S, SftpRemove(W, S, F, normalize_path(path)),
            "sftp.remove", "AsyncSFTPError", "Failed to remove file: ", Ok("None", <<>>))

\* exists() without its `except FileNotFoundError` clause
exists_no_notfound(W, S, path, F) ==
    TryCall(W, S, SftpStat(W, S, F, normalize_path(path)),
            "sftp.stat", "AsyncSFTPError", "Failed to check path existence: ",
            Ok("True", <<>>))

\* exists() with a bare `except Exception: return False`
exists_conflating(W, S, path, F) ==
    LET r == SftpStat(W, S, F, normalize_path(path))
    IN IF ~S.set THEN [res |-> Ok("False", <<>>), W |-> W]
       ELSE [res |-> IF r.e.exc = "none" THEN Ok("True", <<>>) ELSE Ok("False", <<>>),
             W |-> Logged(r.W, "sftp.stat", "worker", r.e)]

exists(W, S, path, F) ==
    LET r == SftpStat(W, S, F, normalize_path(path))
        prefix == "Failed to check path existence: "
    IN IF ~S.set THEN [res |-> Wrap("AsyncSFTPError", prefix, NoneAttr), W |-> W]
       ELSE [res |-> IF r.e.exc = "none" THEN Ok("True", <<>>)
                     ELSE IF IsInstance(r.e.exc, "FileNotFoundError") THEN Ok("False", <<>>)
                     ELSE IF IsInstance(r.e.exc, "Exception")
                          THEN Wrap("AsyncSFTPError", prefix, r.e)
                     ELSE Raised(r.e),
             W |-> Logged(r.W, "sftp.stat", "worker", r.e)]

stat(W, S, path, F) ==
    TryCall(W, S, SftpStat(W, S, F, normalize_path(path)),
            "sftp.stat", "AsyncSFTPError", "Failed to get file attributes: ", Ok("attrs", <<>>))

-----------------------------------------------------------------------------
(* utils.get_files_recursive: path.rglob('*') yields a directory's entries *)
(* and then those of each sub-directory, depth first; the files are kept.  *)

LocalFilesIn(W, dir) == SelectSeq(NameOrder, LAMBDA n : IsLocalFile(W, Append(dir, n)))
LocalDirsIn(W, dir) == SelectSeq(NameOrder, LAMBDA n : IsLocalDir(W, Append(dir, n)))

RECURSIVE rglob(_, _)
RECURSIVE rglob_subs(_, _, _)
rglob(W, dir) ==
    [i \in 1..Len(LocalFilesIn(W, dir)) |-> Append(dir, LocalFilesIn(W, dir)[i])]
        \o rglob_subs(W, dir, LocalDirsIn(W, dir))
rglob_subs(W, dir, subs) ==
    IF subs = <<>> THEN <<>>
    ELSE rglob(W, Append(dir, Head(subs))) \o rglob_subs(W, dir, Tail(subs))

get_files_recursive(W, path) ==
    IF ~LocalExists(W, path)
    THEN [res |-> Raised(Exc("FileNotFoundError", "Path does not exist")), files |-> <<>>]
    ELSE [res |-> Ok("list", <<>>),
          files |-> IF IsLocalDir(W, path) THEN rglob(W, path) ELSE <<>>]

-----------------------------------------------------------------------------
(* put_dir and get_dir *)

RECURSIVE put_dir_files(_, _, _, _, _, _)
\* the `for file in files` loop of put_dir
put_dir_files(W, S, files, local_path, remote_base, F) ==
    IF files = <<>> THEN [res |-> Ok("None", <<>>), W |-> W]
    ELSE LET file == Head(files)
             relative_path == AsSegs(SubSeq(file, Len(local_path) + 1, Len(file)))
             remote_file_path == remote_base \o relative_path
             m == mkdir(W, S, Parent(remote_file_path), F)
         IN IF m.res.kind # "ok" THEN m
            ELSE LET u == put(m.W, S, file, remote_file_path, F)
                 IN IF u.res.kind # "ok" THEN u
                    ELSE put_dir_files(u.W, S, Tail(files), local_path, remote_base, F)

put_dir(W, S, local_path, remote_path, F) ==
    IF ~IsLocalDir(W, local_path)
    THEN [res |-> Raised(Exc("NotADirectoryError", "Local path is not a directory")), W |-> W]
    ELSE LET g == get_files_recursive(W, local_path)
         IN IF g.res.kind # "ok" THEN [res |-> g.res, W |-> W]
            ELSE put_dir_files(W, S, g.files, local_path, remote_path, F)

\* local_path.mkdir(parents=True, exist_ok=True)
LocalMkdirP(W, p) ==
    [W EXCEPT !.ldirs = @ \cup {SubSeq(p, 1, i) : i \in 1..Len(p)}]

RECURSIVE get_dir(_, _, _, _, _)
RECURSIVE get_dir_items(_, _, _, _, _, _)
get_dir(W, S, remote_path, local_path, F) ==
    IF IsLocalFile(W, local_path)
    THEN [res |-> Raised(Exc("FileExistsError", "File exists")), W |-> W]
    ELSE LET l == listdir(LocalMkdirP(W, local_path), S, remote_path, F)
         IN IF l.res.kind # "ok" THEN l
            ELSE get_dir_items(l.W, S, l.res.list, remote_path, local_path, F)

\* the `for item in files` loop of get_dir, with its try/except
get_dir_items(W, S, items, remote_path, local_path, F) ==
    IF items = <<>> THEN [res |-> Ok("None", <<>>), W |-> W]
    ELSE LET remote_item == Append(remote_path, Seg(Head(items)))
             local_item == Append(local_path, Head(items))
             prefix == "Failed to download directory: "
             st == stat(W, S, remote_item, F)
             pr == SftpIsdir(st.W, S, F, normalize_path(remote_item))
             Wp == IF pr.called THEN Logged(pr.W, "sftp.isdir", "worker", pr.e) ELSE pr.W
             body == IF pr.val THEN get_dir(Wp, S, remote_item, local_item, F)
                     ELSE get(Wp, S, remote_item, local_item, F)
         IN IF st.res.kind # "ok"
            THEN [res |-> Wrap("FileTransferError", prefix, AsExc(st.res)), W |-> st.W]
            ELSE IF pr.e.exc # "none"
            THEN [res |-> Wrap("FileTransferError", prefix, pr.e), W |-> Wp]
            ELSE IF body.res.kind # "ok"
            THEN [res |-> Wrap("FileTransferError", prefix, AsExc(body.res)), W |-> body.W]
            ELSE get_dir_items(body.W, S, Tail(items), remote_path, local_path, F)

-----------------------------------------------------------------------------
(* The connection lifecycle.  sess = [conns, client, transport, sftp] are  *)
(* the session's fields; a conns record holds the state of one SSHClient's *)
(* transport and of the SFTP channel opened on it.                         *)

\* how paramiko's SSHClient.connect / SFTPClient.from_transport can end
ConnectOutcomes ==
    {[stage |-> "ok", exc |-> "none"]}
    \cup [stage : {"connect"},
          exc : {"AuthenticationException", "BadHostKeyException", "SSHException",
                 "NoValidConnectionsError"}]
    \cup [stage : {"sftp"}, exc : {"SSHException"}]

\* the transport SSHClient.connect leaves behind when it raises: none before
\* the socket is up, a dead one after a failed negotiation, a live one when
\* the host key or the credentials were refused
TransportAfter(exc) ==
    IF exc \in {"NoValidConnectionsError", "timeout"} THEN "none"
    ELSE IF exc = "SSHException" THEN "closed"
    ELSE "open"

\* the except clauses of connect(), in source order
ConnectError(e) ==
    IF IsInstance(e.exc, "AuthenticationException")
    THEN Wrap("AuthenticationError", "Authentication failed: ", e)
    ELSE IF IsInstance(e.exc, "SSHException")
    THEN Wrap("ConnectionError", "SSH connection failed: ", e)
    ELSE IF IsInstance(e.exc, "Exception")
    THEN Wrap("AsyncSFTPError", "Failed to establish SFTP connection: ", e)
    ELSE Raised(e)

connect(sess, o) ==
    LET n == Len(sess.conns) + 1
        e == Exc(o.exc, "transport failure")
    IN CASE o.stage = "ok" ->
              [res |-> Ok("None", <<>>),
               sess |-> [conns |-> Append(sess.conns, [transport |-> "open", sftp |-> "open"]),
                         client |-> n, transport |-> n, sftp |-> n],
               calls |-> <<Call("client.connect", "worker", NoExc),
                           Call("SFTPClient.from_transport", "worker", NoExc)>>]
         [] o.stage = "connect" ->
              [res |-> ConnectError(e),
               sess |-> [sess EXCEPT
                           !.conns = Append(@, [transport |-> TransportAfter(o.exc),
                                                sftp |-> "none"]),
                           !.client = n],
               calls |-> <<Call("client.connect", "worker", e)>>]
         [] o.stage = "sftp" ->
              [res |-> ConnectError(e),
               sess |-> [sess EXCEPT
                           !.conns = Append(@, [transport |-> "open", sftp |-> "none"]),
                           !.client = n, !.transport = n],
               calls |-> <<Call("client.connect", "worker", NoExc),
                           Call("SFTPClient.from_transport", "worker", e)>>]

\* SSHClient.close(): closes the transport and with it its channels
CloseClient(cs, i) ==
    [cs EXCEPT ![i] = [transport |-> IF @.transport = "open" THEN "closed" ELSE @.transport,
                       sftp |-> IF @.sftp = "open" THEN "closed" ELSE @.sftp]]

\* close(); `fail`: the channel's close message cannot be sent (EOFError)
close(sess, fail) ==
    LET chanOpen == sess.sftp # 0 /\ sess.conns[sess.sftp].sftp = "open"
        e == IF chanOpen /\ fail THEN Exc("EOFError", "Socket is closed") ELSE NoExc
        c1 == IF sess.sftp # 0 THEN <<Call("sftp.close", "worker", e)>> ELSE <<>>
        cs1 == IF chanOpen THEN [sess.conns EXCEPT ![sess.sftp].sftp = "closed"]
               ELSE sess.conns
    IN IF e.exc # "none"
       THEN [res |-> Raised(e), sess |-> [sess EXCEPT !.conns = cs1], calls |-> c1]
       ELSE IF sess.client # 0
       THEN [res |-> Ok("None", <<>>),
             sess |-> [sess EXCEPT !.conns = CloseClient(cs1, sess.client)],
             calls |-> Append(c1, Call("client.close", "inline", NoExc))]
       ELSE [res |-> Ok("None", <<>>), sess |-> [sess EXCEPT !.conns = cs1], calls |-> c1]

-----------------------------------------------------------------------------
(* utils.ensure_async.  A task is one invocation: its coroutine runs on    *)
(* the event loop up to the await, the submitted callable runs on a worker *)
(* thread of the task's own ThreadPoolExecutor, and the coroutine resumes  *)
(* when the future is done.                                                *)

\* what a callable hands back
Returns(v) == [kind |-> "ok", val |-> v, exc |-> "none", text |-> ""]
Raises(type, text) == [kind |-> "exc", val |-> 0, exc |-> type, text |-> text]
Pending == [kind |-> "pending", val |-> 0, exc |-> "none", text |-> ""]

\* the keyword arguments of a call: z is passed or is not
NoKw == [given |-> FALSE, z |-> 0]
Kw(z) == [given |-> TRUE, z |-> z]

\* the synchronous functions of tests/test_utils.py::test_ensure_async
Apply(func, args, kwargs) ==
    CASE func = "sync_func" -> Returns(args[1] * 2)
      [] func = "sync_func_multi" ->
            Returns(args[1] + args[2] + (IF kwargs.given THEN kwargs.z ELSE 1))
      [] func = "sync_func_error" -> Raises("ValueError", "Test error")

\* a partial that binds the positional arguments only
partial_no_kwargs(func, args, kwargs) == [func |-> func, args |-> args, kwargs |-> NoKw]

\* functools.partial(func, *args, **kwargs), and calling it with no argument
partial(func, args, kwargs) == [func |-> func, args |-> args, kwargs |-> kwargs]
CallPartial(w) == Apply(w.func, w.args, w.kwargs)

BridgeInputs ==
    {<<"sync_func", <<5>>, NoKw>>, <<"sync_func", <<2>>, NoKw>>,
     <<"sync_func_multi", <<1, 2>>, Kw(3)>>, <<"sync_func_multi", <<1, 2>>, NoKw>>,
     <<"sync_func_error", <<>>, NoKw>>}

\* an invocation that has not been started
IdleTask == [pc |-> "idle"]

\* ensure_async up to its await: the pool is created, the partial is built
\* and handed to loop.run_in_executor
Start(i) ==
    /\ tasks[i].pc = "idle"
    /\ \E in \in BridgeInputs :
         tasks' = [tasks EXCEPT ![i] =
                     [pc |-> "submitted", func |-> in[1], args |-> in[2],
                      kwargs |-> in[3], pool |-> "open",
                      wrapped |-> partial(in[1], in[2], in[3]),
                      runs |-> 0, got |-> <<>>, future |-> Pending, ret |-> Pending]]
    /\ UNCHANGED session

\* one worker shared by all invocations: a callable is taken only when no
\* other is running
WorkerRunSerial(i) ==
    /\ tasks[i].pc = "submitted"
    /\ \A j \in 1..MaxCalls : tasks[j].pc # "running"
    /\ tasks' = [tasks EXCEPT ![i] =
                   [@ EXCEPT !.pc = "running", !.runs = @ + 1,
                             !.got = <<tasks[i].wrapped.args, tasks[i].wrapped.kwargs>>]]
    /\ UNCHANGED session

\* the pool's worker thread takes the callable and calls it
WorkerRun(i) ==
    /\ tasks[i].pc = "submitted"
    /\ tasks' = [tasks EXCEPT ![i] =
                   [@ EXCEPT !.pc = "running", !.runs = @ + 1,
                             !.got = <<tasks[i].wrapped.args, tasks[i].wrapped.kwargs>>]]
    /\ UNCHANGED session

\* the callable returns or raises on the worker: the future is done
WorkerDone(i) ==
    /\ tasks[i].pc = "running"
    /\ tasks' = [tasks EXCEPT ![i] =
                   [@ EXCEPT !.pc = "done", !.future = CallPartial(tasks[i].wrapped)]]
    /\ UNCHANGED session

\* the coroutine resumes: the await gives the future's result or raises its
\* exception, the with block shuts the pool down, ensure_async returns
Resume(i) ==
    /\ tasks[i].pc = "done"
    /\ tasks' = [tasks EXCEPT ![i] =
                   [@ EXCEPT !.pc = "returned", !.pool = "shutdown",
                             !.ret = tasks[i].future]]
    /\ UNCHANGED session

-----------------------------------------------------------------------------
(* The state machine *)

Sess == [conns |-> conns, client |-> _client, transport |-> _transport, sftp |-> _sftp]
World ==
    [dirs |-> remote.dirs, files |-> remote.files,
     ldirs |-> localfs.dirs, lfiles |-> localfs.files, calls |-> <<>>]
Handle == [set |-> _sftp # 0, open |-> _sftp # 0 /\ conns[_sftp].sftp = "open"]

\* the local trees the caller holds: an empty directory, one file, two files
\* in one directory, the three-file tree of tests/test_utils.py, and an empty
\* directory to download into
LocalDirs0 ==
    {<<"L0">>, <<"L1">>, <<"L2">>, <<"L3">>, <<"L3", "d">>, <<"L3", "d", "s">>, <<"D">>}
LocalFiles0 ==
    (<<"L1", "f1">> :> "c1") @@ (<<"L2", "f1">> :> "c1") @@ (<<"L2", "f2">> :> "c2")
    @@ (<<"L3", "f1">> :> "c1") @@ (<<"L3", "d", "f2">> :> "c2")
    @@ (<<"L3", "d", "s", "f3">> :> "c3")

\* The arguments the caller passes.  A[op] is the set of <<local, remote>>
\* argument pairs of op (<<>> where op has no such argument) and K[op] the
\* kinds of fault injected into op's engine calls.
LifeArgs ==
    [put |-> {<<"L1", "f1">>, <<"nofile">>} \X {<<Seg("f1")>>},
     get |-> {<<"D", "g1">>} \X {<<Seg("f1")>>},
     listdir |-> {<<>>} \X {<<Seg("r")>>},
     mkdir |-> {<<>>} \X {<<Seg("r")>>},
     rmdir |-> {<<>>} \X {<<Seg("r")>>},
     remove |-> {<<>>} \X {<<Seg("f1")>>},
     exists |-> {<<>>} \X {<<Seg("f1")>>},
     stat |-> {<<>>} \X {<<Seg("f1")>>},
     put_dir |-> {<<"L0">>, <<"L1">>} \X {<<Seg("r")>>},
     get_dir |-> {<<"D">>} \X {<<Seg("r")>>}]

\* "r/f1", and "r\f1" written with the separator of another host
TreeFile == {<<Seg("r"), Seg("f1")>>, <<<<"r", "f1">>>>}
TreeDir == {<<Seg("r")>>, <<Seg("r"), Seg("d")>>}
TreeArgs ==
    [put |-> {<<"L1", "f1">>, <<"L2", "f2">>, <<"nofile">>, <<"L0">>} \X TreeFile,
     get |-> {<<"D", "g1">>, <<"nodir", "g1">>} \X TreeFile,
     listdir |-> {<<>>} \X TreeDir,
     mkdir |-> {<<>>} \X TreeDir,
     rmdir |-> {<<>>} \X TreeDir,
     remove |-> {<<>>} \X TreeFile,
     exists |-> {<<>>} \X (TreeFile \cup TreeDir),
     stat |-> {<<>>} \X TreeFile,
     put_dir |-> {<<"L0">>, <<"L1">>, <<"L2">>, <<"L3">>, <<"nofile">>}
                 \X {<<Seg("r")>>, <<Seg("q"), Seg("r")>>},
     get_dir |-> {<<"D", "x">>} \X TreeDir]

\* A fault is injected into at most one engine call of an operation (the
\* first failure ends every operation): into any of the calls that the
\* operation issues when nothing is injected, r0 being that run's outcome.
Faults(r0, kinds) == {NoFault} \cup [at : 1..Len(r0.W.calls), exc : kinds]
\* the injected fault is the one the engine raised
Fired(F, W) ==
    IF F.at = 0 THEN TRUE
    ELSE IF F.at > Len(W.calls) THEN FALSE
    ELSE W.calls[F.at].exc = F.exc

\* the retry settings a caller constructs the session with: the defaults
\* (3 attempts, 1.0 s apart) or none
Configs == {[max_retries |-> 3, retry_delay |-> 1], [max_retries |-> 0, retry_delay |-> 0]}

Init ==
    /\ conns = <<>>
    /\ _client = 0
    /\ _transport = 0
    /\ _sftp = 0
    /\ remote = [dirs |-> {<<>>}, files |-> <<>>]
    /\ localfs = [dirs |-> LocalDirs0, files |-> LocalFiles0]
    /\ scope = "none"
    /\ calls = <<>>
    /\ last = [op |-> "init", local |-> <<>>, remote |-> <<>>, fault |-> NoFault,
               res |-> Ok("None", <<>>)]
    /\ tasks = [i \in 1..MaxCalls |-> IdleTask]
    /\ \E c \in Configs : max_retries = c.max_retries /\ retry_delay = c.retry_delay

SetSess(s) ==
    /\ conns' = s.conns
    /\ _client' = s.client
    /\ _transport' = s.transport
    /\ _sftp' = s.sftp

\* a lifecycle operation has run
Lifecycle(op, r, sc) ==
    /\ SetSess(r.sess)
    /\ calls' = r.calls
    /\ last' = [op |-> op, local |-> <<>>, remote |-> <<>>, fault |-> NoFault, res |-> r.res]
    /\ scope' = sc
    /\ UNCHANGED <<remote, localfs, tasks, max_retries, retry_delay>>

\* a transfer operation has run
Transfer(op, lp, rp, F, r) ==
    /\ Fired(F, r.W)
    /\ remote' = [dirs |-> r.W.dirs, files |-> r.W.files]
    /\ localfs' = [dirs |-> r.W.ldirs, files |-> r.W.lfiles]
    /\ calls' = r.W.calls
    /\ last' = [op |-> op, local |-> lp, remote |-> rp, fault |-> F, res |-> r.res]
    /\ UNCHANGED <<conns, _client, _transport, _sftp, scope, tasks, max_retries, retry_delay>>

InUse == scope # "left"

Connect ==
    /\ InUse /\ Len(conns) < MaxClients
    /\ \E o \in ConnectOutcomes : Lifecycle("connect", connect(Sess, o), scope)

Close ==
    /\ InUse
    /\ \E fail \in BOOLEAN : Lifecycle("close", close(Sess, fail), scope)

\* async with AsyncSFTP(...) as s:  __aenter__ is connect(); when it raises,
\* the block is left at once and __aexit__ does not run
ScopeEnter ==
    /\ scope = "none" /\ conns = <<>> /\ Len(conns) < MaxClients
    /\ \E o \in ConnectOutcomes :
         LET r == connect(Sess, o)
         IN Lifecycle("aenter", r, IF r.res.kind = "ok" THEN "in" ELSE "left")

\* the block's body has returned or raised: __aexit__ is close()
ScopeExit ==
    /\ scope = "in"
    /\ \E fail \in BOOLEAN : Lifecycle("aexit", close(Sess, fail), "left")

Put(A, K) ==
    /\ InUse
    /\ \E a \in A.put :
         \E F \in Faults(put(World, Handle, a[1], a[2], NoFault), K) :
            Transfer("put", a[1], a[2], F, put(World, Handle, a[1], a[2], F))

Get(A, K) ==
    /\ InUse
    /\ \E a \in A.get :
         \E F \in Faults(get(World, Handle, a[2], a[1], NoFault), K) :
            Transfer("get", a[1], a[2], F, get(World, Handle, a[2], a[1], F))

Listdir(A, K) ==
    /\ InUse
    /\ \E a \in A.listdir :
         \E F \in Faults(listdir(World, Handle, a[2], NoFault), K) :
            Transfer("listdir", a[1], a[2], F, listdir(World, Handle, a[2], F))

Mkdir(A, K) ==
    /\ InUse
    /\ \E a \in A.mkdir :
         \E F \in Faults(mkdir(World, Handle, a[2], NoFault), K) :
            Transfer("mkdir", a[1], a[2], F, mkdir(World, Handle, a[2], F))

Rmdir(A, K) ==
    /\ InUse
    /\ \E a \in A.rmdir :
         \E F \in Faults(rmdir(World, Handle, a[2], NoFault), K) :
            Transfer("rmdir", a[1], a[2], F, rmdir(World, Handle, a[2], F))

Remove(A, K) ==
    /\ InUse
    /\ \E a \in A.remove :
         \E F \in Faults(remove(World, Handle, a[2], NoFault), K) :
            Transfer("remove", a[1], a[2], F, remove(World, Handle, a[2], F))

Exists(A, K) ==
    /\ InUse
    /\ \E a \in A.exists :
         \E F \in Faults(exists(World, Handle, a[2], NoFault), K) :
            Transfer("exists", a[1], a[2], F, exists(World, Handle, a[2], F))

Stat(A, K) ==
    /\ InUse
    /\ \E a \in A.stat :
         \E F \in Faults(stat(World, Handle, a[2], NoFault), K) :
            Transfer("stat", a[1], a[2], F, stat(World, Handle, a[2], F))

PutDir(A, K) ==
    /\ InUse
    /\ \E a \in A.put_dir :
         \E F \in Faults(put_dir(World, Handle, a[1], a[2], NoFault), K) :
            Transfer("put_dir", a[1], a[2], F, put_dir(World, Handle, a[1], a[2], F))

GetDir(A, K) ==
    /\ InUse
    /\ \E a \in A.get_dir :
         \E F \in Faults(get_dir(World, Handle, a[2], a[1], NoFault), K) :
            Transfer("get_dir", a[1], a[2], F, get_dir(World, Handle, a[2], a[1], F))

\* every operation of the session, in any order, on small arguments
Next ==
    \/ Connect
    \/ Close
    \/ ScopeEnter
    \/ ScopeExit
    \/ Put(LifeArgs, LostOnly)
    \/ Get(LifeArgs, LostOnly)
    \/ Listdir(LifeArgs, LostOnly)
    \/ Mkdir(LifeArgs, LostOnly)
    \/ Rmdir(LifeArgs, LostOnly)
    \/ Remove(LifeArgs, LostOnly)
    \/ Exists(LifeArgs, LostOnly)
    \/ Stat(LifeArgs, LostOnly)
    \/ PutDir(LifeArgs, LostOnly)
    \/ GetDir(LifeArgs, LostOnly)

Spec == Init /\ [][Next]_vars

\* a session that is connected once, used on whole trees, and closed
FirstConnect == conns = <<>> /\ Connect

NextTree ==
    \/ FirstConnect
    \/ Close
    \/ Put(TreeArgs, LostOrDenied)
    \/ Get(TreeArgs, LostOrDenied)
    \/ Listdir(TreeArgs, LostOrDenied)
    \/ Mkdir(TreeArgs, LostOrDenied)
    \/ Rmdir(TreeArgs, LostOrDenied)
    \/ Remove(TreeArgs, LostOrDenied)
    \/ Exists(TreeArgs, LostOrDenied)
    \/ Stat(TreeArgs, LostOrDenied)
    \/ PutDir(TreeArgs, LostOrDenied)
    \/ GetDir(TreeArgs, LostOrDenied)

SpecTree == Init /\ [][NextTree]_vars

\* invocations of ensure_async, started together on one event loop
NextBridge ==
    \E i \in 1..MaxCalls :
        \/ Start(i)
        \/ WorkerRun(i)
        \/ WorkerDone(i)
        \/ Resume(i)

SpecBridge == Init /\ [][NextBridge]_vars

-----------------------------------------------------------------------------
(* The session's lifecycle, read off its fields *)

TransferOps ==
    {"put", "get", "listdir", "mkdir", "rmdir", "remove", "exists", "stat",
     "put_dir", "get_dir"}

\* connect() has never succeeded: only its last line sets self._sftp
Unconnected == _sftp = 0
\* the session holds a usable file-operations handle
Connected == _sftp # 0 /\ conns[_sftp].sftp = "open"
\* close() has released the handle that self._sftp still names
Closed == _sftp # 0 /\ conns[_sftp].sftp = "closed"
\* the clients whose transport or SFTP channel is open
OpenHandles ==
    {i \in 1..Len(conns) : conns[i].transport = "open" \/ conns[i].sftp = "open"}

-----------------------------------------------------------------------------
(* Claims *)

\* C1: close() never raises, whatever the state of the session (never
\* connected, connect failed, connected, already closed), and a close() that
\* directly follows a close() also completes without error and leaves the
\* session's handles as the first close() left them.
C1_CloseIdempotent ==
    [][/\ last'.op = "close" => last'.res.kind = "ok"
       /\ (last.op = "close" /\ last'.op = "close")
             => <<conns', _client', _transport', _sftp'>>
                  = <<conns, _client, _transport, _sftp>>]_vars

\* C2: a transfer operation on a session whose connect() never succeeded
\* raises, for every input, and issues no engine call.
C2_UnconnectedOpsFail ==
    (Unconnected /\ last.op \in TransferOps) => (last.res.kind # "ok" /\ calls = <<>>)

\* C3: once control has left an `async with` block, however it left it, no
\* transport or SFTP channel that the session opened is still open.
C3_ScopeReleasesHandles == scope = "left" => OpenHandles = {}

\* C4: put() of a local path that does not exist raises FileNotFoundError,
\* issues no engine call and leaves the remote tree as it was, in every
\* state of the session.
C4_PutMissingLocalFile ==
    [][(last'.op = "put" /\ ~LocalExists(World, last'.local))
          => /\ last'.res.kind = "FileNotFoundError"
             /\ calls' = <<>>
             /\ remote' = remote]_vars

\* a put() of a missing local file has run on a connected session
C4_Witness ==
    /\ last.op = "put" /\ ~LocalExists(World, last.local)
    /\ Connected /\ last.res.kind = "FileNotFoundError"

\* C5 (as stated): on a Connected session exists(path) returns False for
\* every path that has no remote entry, and returns True when it directly
\* follows a put() to that path that returned normally.
C5_ExistsReflectsRemote ==
    [][(last'.op = "exists" /\ Connected)
          => /\ ~RemoteExists(World, normalize_path(last'.remote))
                   => (last'.res.kind = "ok" /\ last'.res.val = "False")
             /\ (/\ last.op = "put" /\ last.res.kind = "ok"
                 /\ normalize_path(last.remote) = normalize_path(last'.remote))
                   => (last'.res.kind = "ok" /\ last'.res.val = "True")]_vars

\* C5 (amended): the same, provided the probe itself does not fail with an
\* error other than not-found; such a failure is raised as AsyncSFTPError,
\* whether the path has a remote entry or not.
C5_ExistsReflectsRemoteUnlessProbeFails ==
    [][(last'.op = "exists" /\ Connected)
          => IF calls'[1].exc \in {"none", "FileNotFoundError"}
             THEN /\ ~RemoteExists(World, normalize_path(last'.remote))
                        => (last'.res.kind = "ok" /\ last'.res.val = "False")
                  /\ (/\ last.op = "put" /\ last.res.kind = "ok"
                      /\ normalize_path(last.remote) = normalize_path(last'.remote))
                        => (last'.res.kind = "ok" /\ last'.res.val = "True")
             ELSE last'.res.kind = "AsyncSFTPError"]_vars

\* exists() has answered True on a Connected session for "r\f1", the file
\* that a put() created as r/f1
C5_Witness ==
    /\ last.op = "exists" /\ Connected
    /\ last.remote = <<<<"r", "f1">>>>
    /\ IsRemoteFile(World, <<"r", "f1">>)
    /\ last.res.kind = "ok" /\ last.res.val = "True"

\* C6: put_dir() of a local directory on a Connected session, with no
\* engine failure injected, returns normally; every directory on the way to
\* each uploaded file then exists, each local file is at its mirrored remote
\* path with its content, and where the remote root held no file before, the
\* files under it are exactly the mirrored ones.
C6_PutDirMirrorsTree ==
    [][(/\ last'.op = "put_dir" /\ Connected
        /\ IsLocalDir(World, last'.local) /\ last'.fault = NoFault)
          => LET L == last'.local
                 R == normalize_path(last'.remote)
                 files == {f \in DOMAIN localfs.files :
                              Len(f) > Len(L) /\ SubSeq(f, 1, Len(L)) = L}
                 Mirror(f) == R \o SubSeq(f, Len(L) + 1, Len(f))
                 Under(T) == {q \in T : Len(q) > Len(R) /\ SubSeq(q, 1, Len(R)) = R}
             IN /\ last'.res.kind = "ok"
                /\ \A f \in files :
                     /\ Mirror(f) \in DOMAIN remote'.files
                     /\ remote'.files[Mirror(f)] = localfs.files[f]
                     /\ \A i \in 0..(Len(Mirror(f)) - 1) :
                          SubSeq(Mirror(f), 1, i) \in remote'.dirs
                /\ Under(DOMAIN remote.files) = {}
                     => Under(DOMAIN remote'.files) = {Mirror(f) : f \in files}]_vars

\* C7: a get_dir(R, L2) with no engine failure injected, directly after a
\* put_dir(L, R) that uploaded and returned normally on a Connected session,
\* returns normally, and L2 then holds exactly the files of L, at the same
\* relative paths with the same contents, inside local directories.
C7_DirRoundTrip ==
    [][(/\ last.op = "put_dir" /\ last.res.kind = "ok" /\ calls # <<>>
        /\ last'.op = "get_dir" /\ last'.fault = NoFault
        /\ normalize_path(last'.remote) = normalize_path(last.remote)
        /\ Connected)
          => LET L == last.local
                 L2 == last'.local
                 Rel(T, root) ==
                     {SubSeq(f, Len(root) + 1, Len(f)) :
                        f \in {g \in DOMAIN T :
                                 Len(g) > Len(root) /\ SubSeq(g, 1, Len(root)) = root}}
             IN /\ last'.res.kind = "ok"
                /\ Rel(localfs'.files, L2) = Rel(localfs.files, L)
                /\ \A s \in Rel(localfs.files, L) :
                     /\ localfs'.files[L2 \o s] = localfs.files[L \o s]
                     /\ \A i \in 1..(Len(L2 \o s) - 1) :
                          SubSeq(L2 \o s, 1, i) \in localfs'.dirs]_vars

\* C8: a connect() that fails (called directly or by __aenter__) raises
\* AuthenticationError when the transport refused the credentials,
\* ConnectionError on every other handshake or transport failure, the refusal
\* of the socket among them, and the base AsyncSFTPError only otherwise.
C8_ConnectClassifiesFailure ==
    (last.op \in {"connect", "aenter"} /\ last.res.kind # "ok")
       => LET e == calls[Len(calls)].exc
          IN last.res.kind =
                IF e = "AuthenticationException" THEN "AuthenticationError"
                ELSE IF e \in {"BadHostKeyException", "SSHException",
                               "NoValidConnectionsError", "timeout"}
                THEN "ConnectionError"
                ELSE "AsyncSFTPError"

\* C9: on a Connected session, when the engine call of put or get raises,
\* the operation raises FileTransferError, and when the engine call of
\* listdir, mkdir, rmdir, remove or stat raises, the operation raises the
\* base AsyncSFTPError; the message is the operation's prefix followed by
\* the text of the engine's exception.
C9_UniformErrorTranslation ==
    (/\ Connected
     /\ last.op \in {"put", "get", "listdir", "mkdir", "rmdir", "remove", "stat"}
     /\ calls # <<>> /\ calls[1].exc # "none")
       => /\ last.res.kind =
                IF last.op \in {"put", "get"} THEN "FileTransferError" ELSE "AsyncSFTPError"
          /\ last.res.cause = calls[1].text
          /\ last.res.msg =
                CASE last.op = "put" -> <<"Failed to upload file: ">>
                  [] last.op = "get" -> <<"Failed to download file: ">>
                  [] last.op = "listdir" -> <<"Failed to list directory: ">>
                  [] last.op = "mkdir" -> <<"Failed to create directory: ">>
                  [] last.op = "rmdir" -> <<"Failed to remove directory: ">>
                  [] last.op = "remove" -> <<"Failed to remove file: ">>
                  [] last.op = "stat" -> <<"Failed to get file attributes: ">>

\* the server has refused a put() on a Connected session, and put() has
\* raised FileTransferError with the server's text
C9_Witness ==
    /\ Connected /\ last.op = "put"
    /\ calls # <<>> /\ calls[1].exc = "PermissionError"
    /\ last.res.kind = "FileTransferError" /\ last.res.cause = "Permission denied"

\* C10: an invocation of ensure_async never runs its function more than
\* once; when it has completed, the function has run exactly once, with the
\* positional and keyword arguments of the invocation, what ensure_async
\* returned or raised is what the function returned or raised, and the
\* invocation's worker pool is shut down.
C10_BridgeCallsOnce ==
    \A i \in 1..MaxCalls :
       /\ tasks[i].pc # "idle" => tasks[i].runs <= 1
       /\ tasks[i].pc = "returned"
             => /\ tasks[i].runs = 1
                /\ tasks[i].got = <<tasks[i].args, tasks[i].kwargs>>
                /\ tasks[i].ret = Apply(tasks[i].func, tasks[i].args, tasks[i].kwargs)
                /\ tasks[i].pool = "shutdown"

\* one invocation has returned the value of a call with a keyword argument
\* and another has raised its function's ValueError
C10_Witness ==
    \E i, j \in 1..MaxCalls :
       /\ tasks[i].pc = "returned" /\ tasks[i].kwargs.given
       /\ tasks[i].ret = Returns(6)
       /\ tasks[j].pc = "returned"
       /\ tasks[j].ret = Raises("ValueError", "Test error")

\* C11: invocations of ensure_async do not wait for one another: whatever
\* the other invocations are doing, a submitted function can start on its
\* worker, a finished one can hand its outcome back, and the event loop can
\* start or resume an invocation.
C11_BridgeRunsInParallel ==
    \A i \in 1..MaxCalls :
       /\ tasks[i].pc = "idle" => ENABLED Start(i)
       /\ tasks[i].pc = "submitted" => ENABLED WorkerRun(i)
       /\ tasks[i].pc = "running" => ENABLED WorkerDone(i)
       /\ tasks[i].pc = "done" => ENABLED Resume(i)

\* three invocations started together have their functions in flight at once
C11_Witness ==
    Cardinality({i \in 1..MaxCalls : tasks[i].pc = "running"}) >= 3

\* C12: a transfer operation that follows a close() which completed on a
\* Connected session raises, and the session makes no engine call for it:
\* nothing is handed to the released handle.
C12_ClosedSessionRejects ==
    [][(/\ last.op = "close" /\ last.res.kind = "ok" /\ Closed
        /\ last'.op \in TransferOps)
          => (last'.res.kind # "ok" /\ calls' = <<>>)]_vars

\* C13: the session only moves Unconnected -> Connected -> Closed: no step
\* takes an Unconnected session to Closed, and no operation that follows a
\* completed close(), connect() included, makes the session Connected.
C13_ClosedIsTerminal ==
    [][/\ Unconnected => ~Closed'
       /\ (last.op = "close" /\ last.res.kind = "ok" /\ Closed) => ~Connected']_vars

\* C14: of the transports that the session's connect() calls have opened,
\* at most one is open at any time.
C14_AtMostOneLiveTransport ==
    Cardinality({i \in 1..Len(conns) : conns[i].transport = "open"}) <= 1

\* C15: on a Connected session exists() returns False exactly when its
\* probe raised not-found, True exactly when the probe raised nothing, and
\* raises AsyncSFTPError, with the probe's text, on every other failure of
\* the probe.
C15_ExistsFalseOnlyOnNotFound ==
    (Connected /\ last.op = "exists")
       => /\ Len(calls) = 1 /\ calls[1].prim = "sftp.stat"
          /\ (last.res.kind = "ok" /\ last.res.val = "False")
                <=> calls[1].exc = "FileNotFoundError"
          /\ (last.res.kind = "ok" /\ last.res.val = "True") <=> calls[1].exc = "none"
          /\ calls[1].exc \notin {"none", "FileNotFoundError"}
                => (last.res.kind = "AsyncSFTPError" /\ last.res.cause = calls[1].text)

\* the server has denied the probe of a path that has no remote entry, and
\* exists() has raised AsyncSFTPError
C15_Witness ==
    /\ Connected /\ last.op = "exists"
    /\ calls # <<>> /\ calls[1].exc = "PermissionError"
    /\ ~RemoteExists(World, normalize_path(last.remote))
    /\ last.res.kind = "AsyncSFTPError"

\* C16: put_dir() of a local directory on a Connected session, with no
\* engine failure injected, onto a remote root whose parent exists and with
\* no remote file or directory in the way of a mirrored path, returns
\* normally and has uploaded every file: a directory that is already there
\* (from before the call, or made for an earlier file) does not stop it.
C16_PutDirAcceptsExistingDir ==
    [][(/\ last'.op = "put_dir" /\ Connected
        /\ IsLocalDir(World, last'.local) /\ last'.fault = NoFault
        /\ LET L == last'.local
               R == normalize_path(last'.remote)
               files == {f \in DOMAIN localfs.files :
                            Len(f) > Len(L) /\ SubSeq(f, 1, Len(L)) = L}
               Mirror(f) == R \o SubSeq(f, Len(L) + 1, Len(f))
           IN /\ Parent(R) \in remote.dirs
              /\ \A f \in files :
                   /\ Mirror(f) \notin remote.dirs
                   /\ \A i \in Len(R)..(Len(Mirror(f)) - 1) :
                        SubSeq(Mirror(f), 1, i) \notin DOMAIN remote.files)
          => LET L == last'.local
                 R == normalize_path(last'.remote)
                 files == {f \in DOMAIN localfs.files :
                              Len(f) > Len(L) /\ SubSeq(f, 1, Len(L)) = L}
                 Mirror(f) == R \o SubSeq(f, Len(L) + 1, Len(f))
             IN /\ last'.res.kind = "ok"
                /\ \A f \in files : Mirror(f) \in DOMAIN remote'.files]_vars

\* C17: a get_dir() on a Connected session that fails after asking the
\* engine for something (a listing, a probe or a download raised) raises
\* FileTransferError, and every local file that was there before the call
\* or was downloaded during it is still there.
C17_GetDirFailsAsFileTransferError ==
    [][(/\ last'.op = "get_dir" /\ Connected
        /\ last'.res.kind # "ok" /\ calls' # <<>>)
          => /\ last'.res.kind = "FileTransferError"
             /\ DOMAIN localfs.files \subseteq DOMAIN localfs'.files]_vars

\* C18: a close() on a Connected session (called directly or by
\* __aexit__) raises nothing, closes the SFTP handle and then the client
\* with its transport, in that order, and leaves both closed.
C18_CloseReleasesBothInOrder ==
    [][(Connected /\ last'.op \in {"close", "aexit"})
          => /\ last'.res.kind = "ok"
             /\ Len(calls') = 2
             /\ calls'[1].prim = "sftp.close" /\ calls'[2].prim = "client.close"
             /\ conns'[_sftp].sftp = "closed"
             /\ conns'[_client].transport = "closed"]_vars

\* C19: every engine call that the session makes runs on a worker, through
\* ensure_async; none runs inline on the event loop.
C19_AllCallsOffloaded ==
    \A k \in 1..Len(calls) : calls[k].via = "worker"

\* C20: whatever max_retries and retry_delay the session was constructed
\* with, a connect, put, get, listdir, mkdir, rmdir, remove, exists or stat
\* makes each of its engine calls at most once; a call that raised is the
\* operation's last, and the operation then raises (exists answers False
\* to not-found).
C20_NoRetry ==
    last.op \in {"connect", "aenter", "put", "get", "listdir", "mkdir", "rmdir",
                 "remove", "exists", "stat"}
       => /\ \A j, k \in 1..Len(calls) : calls[j].prim = calls[k].prim => j = k
          /\ \A k \in 1..Len(calls) :
               calls[k].exc # "none"
                  => /\ k = Len(calls)
                     /\ \/ last.res.kind # "ok"
                        \/ last.op = "exists" /\ calls[k].exc = "FileNotFoundError"

\* a session constructed with max_retries = 3 has lost its connection
\* during a put(): one engine call was made, and put() raised
C20_Witness ==
    /\ max_retries = 3 /\ Connected /\ last.op = "put"
    /\ Len(calls) = 1 /\ calls[1].exc = "EOFError"
    /\ last.res.kind = "FileTransferError"

====
